---- MODULE Spec2Model ----
(***************************************************************************)
(* Model of distinct-dates (src/main.c): a counting sort, the nine-pass    *)
(* radix sort of DateTimes built on it, the distinct scan, the ranged      *)
(* carry arithmetic and the ISO 8601 parser.                               *)
(*                                                                         *)
(* Conventions.                                                            *)
(*  - A C array of n elements is a function with domain 0..n-1.            *)
(*  - A C pointer is a set: NULL is the empty set, a valid pointer is the  *)
(*    singleton holding the object it points to.                           *)
(*  - A C `unsigned int` is represented by the integer that has the same   *)
(*    32-bit two's complement pattern, so that int <-> unsigned            *)
(*    conversions are the identity on the representation and unsigned      *)
(*    comparison is ULe below.  +, - and * agree with C's arithmetic       *)
(*    modulo 2^32 on the representation as long as no intermediate value   *)
(*    leaves the int range, which the bounds of the model guarantee.       *)
(*  - A C string is the sequence of the ASCII codes of its characters; the *)
(*    terminating NUL is the position just after the sequence.             *)
(***************************************************************************)
EXTENDS Integers, Sequences, FiniteSets

VARIABLES
    scenario,        \* which entry point of the program this behaviour exercises
    pc,              \* position of the caller: "call" before, "done" after the call
    values,          \* CountSort: pointer to the caller's array of unsigned values
    selector,        \* CountSort: pointer to the selector function
    maxValue,        \* CountSort: the declared largest digit
    keys,            \* CountSort: the caller's key array
    sortedKeys,      \* output key buffer of CountSort / SortDateTimes
    success,         \* the boolean the called function returned
    dates,           \* SortDateTimes / DistinctDateTimes: the DateTime array
    distinctKeys,    \* DistinctDateTimes: output key buffer
    numDistinctKeys, \* DistinctDateTimes: *outNewCount
    val,             \* OffsetAndWrap: *val
    offset,          \* OffsetAndWrap: offset
    min,             \* OffsetAndWrap: min
    max,             \* OffsetAndWrap: max
    carry,           \* OffsetAndWrap: the returned carry
    isoString,       \* PopulateDateTimeFromIsoString: the input text
    date,            \* PopulateDateTimeFromIsoString: the caller's DateTime
    tzCall,          \* ghost: the OffsetDateTime call the parser made
    old              \* snapshot of the caller's out-parameters before the call

vars == <<scenario, pc, values, selector, maxValue, keys, sortedKeys,
          success, dates, distinctKeys, numDistinctKeys, val, offset, min, max,
          carry, isoString, date, tzCall, old>>

csVars    == <<values, selector, maxValue, keys>>
sortVars  == <<dates, distinctKeys, numDistinctKeys>>
wrapVars  == <<val, offset, min, max, carry>>
parseVars == <<isoString, date, tzCall>>

----------------------------------------------------------------------------
(* Pointers *)

NULL == {}
Ptr(x) == {x}
Deref(p) == CHOOSE x \in p : TRUE

(* Array helpers *)

Array(n, x) == [i \in 0..(n - 1) |-> x]
ToSeq(a, n) == [i \in 1..n |-> a[i - 1]]

(* Unsigned comparison on 32-bit patterns: a negative representation is an *)
(* unsigned value of 2^31 or more.                                         *)
ULe(a, b) ==
    IF (a < 0) = (b < 0) THEN a <= b ELSE b < 0

----------------------------------------------------------------------------
(* DateTime and the comparisons on it *)

MkDateTime(y, mo, d, h, mi, s) ==
    [year |-> y, month |-> mo, day |-> d, hour |-> h, minute |-> mi, second |-> s]

InRange(value, lo, hi) ==
    ULe(lo, value) /\ ULe(value, hi)

IsDateTimeValid(dateTime) ==
    /\ dateTime # NULL
    /\ InRange(Deref(dateTime).year, 0, 9999)
    /\ InRange(Deref(dateTime).month, 1, 12)
    /\ InRange(Deref(dateTime).day, 1, 31)
    /\ InRange(Deref(dateTime).hour, 0, 23)
    /\ InRange(Deref(dateTime).minute, 0, 59)
    /\ InRange(Deref(dateTime).second, 0, 59)

(* Mutant of DateTimesEqual: the seconds are not compared. *)
DateTimesEqualToTheMinute(lhs, rhs) ==
    /\ lhs.year = rhs.year
    /\ lhs.month = rhs.month
    /\ lhs.day = rhs.day
    /\ lhs.hour = rhs.hour
    /\ lhs.minute = rhs.minute

DateTimesEqual(lhs, rhs) ==
    /\ lhs.year = rhs.year
    /\ lhs.month = rhs.month
    /\ lhs.day = rhs.day
    /\ lhs.hour = rhs.hour
    /\ lhs.minute = rhs.minute
    /\ lhs.second = rhs.second

DateTimeLessThan(lhs, rhs) ==
    IF lhs.year < rhs.year THEN TRUE
    ELSE IF lhs.year > rhs.year THEN FALSE
    ELSE IF lhs.month < rhs.month THEN TRUE
    ELSE IF lhs.month > rhs.month THEN FALSE
    ELSE IF lhs.day < rhs.day THEN TRUE
    ELSE IF lhs.day > rhs.day THEN FALSE
    ELSE IF lhs.hour < rhs.hour THEN TRUE
    ELSE IF lhs.hour > rhs.hour THEN FALSE
    ELSE IF lhs.minute < rhs.minute THEN TRUE
    ELSE IF lhs.minute > rhs.minute THEN FALSE
    ELSE lhs.second < rhs.second

----------------------------------------------------------------------------
(* The value selectors handed to CountSort *)

TestValueSelector(vals, key) == vals[key]
SecondSelector(dateTimeValues, key) == dateTimeValues[key].second
MinuteSelector(dateTimeValues, key) == dateTimeValues[key].minute
HourSelector(dateTimeValues, key) == dateTimeValues[key].hour
DaySelector(dateTimeValues, key) == dateTimeValues[key].day
MonthSelector(dateTimeValues, key) == dateTimeValues[key].month
YearLSDSelector(dateTimeValues, key) == dateTimeValues[key].year % 10
YearDecadeSelector(dateTimeValues, key) == (dateTimeValues[key].year \div 10) % 10
YearCenturySelector(dateTimeValues, key) == (dateTimeValues[key].year \div 100) % 10
YearMilleniumSelector(dateTimeValues, key) == (dateTimeValues[key].year \div 1000) % 10

(* The call valueSelector(values, key) through the function pointer; a     *)
(* function pointer is the pointer to the selector's name.                 *)
CallSelector(valueSelector, vals, key) ==
    LET f == Deref(valueSelector)
        v == Deref(vals)
    IN  CASE f = "TestValueSelector"     -> TestValueSelector(v, key)
          [] f = "SecondSelector"        -> SecondSelector(v, key)
          [] f = "MinuteSelector"        -> MinuteSelector(v, key)
          [] f = "HourSelector"          -> HourSelector(v, key)
          [] f = "DaySelector"           -> DaySelector(v, key)
          [] f = "MonthSelector"         -> MonthSelector(v, key)
          [] f = "YearLSDSelector"       -> YearLSDSelector(v, key)
          [] f = "YearDecadeSelector"    -> YearDecadeSelector(v, key)
          [] f = "YearCenturySelector"   -> YearCenturySelector(v, key)
          [] f = "YearMilleniumSelector" -> YearMilleniumSelector(v, key)

----------------------------------------------------------------------------
(* CountSort *)

(* First loop: the histogram of element frequencies, from key i on.  A     *)
(* digit above maxValue ends the call before anything is placed.           *)
RECURSIVE BuildHistogram(_, _, _, _, _, _, _)
BuildHistogram(vals, valueSelector, maxV, keyCount, ks, i, histogram) ==
    IF i >= keyCount THEN [ok |-> TRUE, histogram |-> histogram]
    ELSE LET key == ks[i]
             value == CallSelector(valueSelector, vals, key)
         IN  IF ~ULe(value, maxV)
             THEN [ok |-> FALSE, histogram |-> histogram]
             ELSE BuildHistogram(vals, valueSelector, maxV, keyCount, ks, i + 1,
                                 [histogram EXCEPT ![value] = @ + 1])

(* Second loop: inclusive prefix sums, from index i on. *)
RECURSIVE PrefixSums(_, _, _)
PrefixSums(histogram, maxV, i) ==
    IF i > maxV THEN histogram
    ELSE PrefixSums([histogram EXCEPT ![i] = histogram[i - 1] + histogram[i]],
                    maxV, i + 1)

(* Mutant of PlaceKeys: the keys are scanned forward, from j up to n - 1. *)
RECURSIVE PlaceKeysForwardFrom(_, _, _, _, _, _, _)
PlaceKeysForwardFrom(vals, valueSelector, ks, n, j, histogram, outKeys) ==
    IF j >= n THEN outKeys
    ELSE PlaceKeysForwardFrom(
             vals, valueSelector, ks, n, j + 1,
             [histogram EXCEPT ![CallSelector(valueSelector, vals, ks[j])] = @ - 1],
             [outKeys EXCEPT
                ![histogram[CallSelector(valueSelector, vals, ks[j])] - 1] = ks[j]])

PlaceKeysForward(vals, valueSelector, ks, i, histogram, outKeys) ==
    PlaceKeysForwardFrom(vals, valueSelector, ks, i, 0, histogram, outKeys)

(* Third loop: placement, scanning the keys in reverse from i down to 1. *)
RECURSIVE PlaceKeys(_, _, _, _, _, _)
PlaceKeys(vals, valueSelector, ks, i, histogram, outKeys) ==
    IF i = 0 THEN outKeys
    ELSE LET key == ks[i - 1]
             value == CallSelector(valueSelector, vals, key)
             outIndex == histogram[value] - 1
         IN  PlaceKeys(vals, valueSelector, ks, i - 1,
                       [histogram EXCEPT ![value] = @ - 1],
                       [outKeys EXCEPT ![outIndex] = key])

(* Mutant of SortWithHistogram: a call that fails on a digit above         *)
(* maxValue has already copied the keys into outKeys.                      *)
SortWithHistogramOrCopy(vals, valueSelector, maxV, keyCount, ks, outKeys, built) ==
    IF ~built.ok
    THEN [ret |-> FALSE, outKeys |-> [i \in DOMAIN outKeys |-> ks[i]]]
    ELSE [ret |-> TRUE,
          outKeys |-> PlaceKeys(vals, valueSelector, ks, keyCount,
                                PrefixSums(built.histogram, maxV, 1), outKeys)]

(* The second and third loops, run once the histogram is built. *)
SortWithHistogram(vals, valueSelector, maxV, keyCount, ks, outKeys, built) ==
    IF ~built.ok
    THEN [ret |-> FALSE, outKeys |-> outKeys]
    ELSE [ret |-> TRUE,
          outKeys |-> PlaceKeys(vals, valueSelector, ks, keyCount,
                                PrefixSums(built.histogram, maxV, 1), outKeys)]

(* The result is the returned boolean and the content of outKeys after the *)
(* call.                                                                   *)
CountSort(vals, valueSelector, maxV, keyCount, ks, outKeys) ==
    IF vals = NULL \/ valueSelector = NULL
    THEN [ret |-> FALSE, outKeys |-> outKeys]
    ELSE SortWithHistogram(vals, valueSelector, maxV, keyCount, ks, outKeys,
                           BuildHistogram(vals, valueSelector, maxV, keyCount, ks, 0,
                                          Array(maxV + 1, 0)))

----------------------------------------------------------------------------
(* SortDateTimes *)

(* Mutant of SortPasses: the hour pass runs before the minute pass. *)
SortPassesHourFirst ==
    << <<"SecondSelector", 59>>,
       <<"HourSelector", 23>>,
       <<"MinuteSelector", 59>>,
       <<"DaySelector", 31>>,
       <<"MonthSelector", 12>>,
       <<"YearLSDSelector", 9>>,
       <<"YearDecadeSelector", 9>>,
       <<"YearCenturySelector", 9>>,
       <<"YearMilleniumSelector", 9>> >>

(* The nine passes in the order of the source: selector and maxValue. *)
SortPasses ==
    << <<"SecondSelector", 59>>,
       <<"MinuteSelector", 59>>,
       <<"HourSelector", 23>>,
       <<"DaySelector", 31>>,
       <<"MonthSelector", 12>>,
       <<"YearLSDSelector", 9>>,
       <<"YearDecadeSelector", 9>>,
       <<"YearCenturySelector", 9>>,
       <<"YearMilleniumSelector", 9>> >>

(* Pass p and the passes after it.  ks is the scratch key array, outKeys   *)
(* the caller's buffer; after a successful pass that is not the last one   *)
(* outKeys is copied back into ks (memcpy).  A failing pass returns at     *)
(* once, leaving outKeys as the passes before it wrote it.  r is the       *)
(* result of pass p's CountSort.                                           *)
RECURSIVE AfterPass(_, _, _, _)
RunPasses(dateTimes, count, p, ks, outKeys) ==
    AfterPass(dateTimes, count, p,
              CountSort(Ptr(dateTimes), Ptr(SortPasses[p][1]), SortPasses[p][2],
                        count, ks, outKeys))

(* Mutant of AfterPass: a failing pass does not end the sort; only the     *)
(* result of the last pass is returned.                                    *)
AfterPassKeepGoing(dateTimes, count, p, r) ==
    IF ~r.ret /\ p = Len(SortPasses)
    THEN [ret |-> FALSE, outKeys |-> r.outKeys, failedPass |-> p]
    ELSE IF p = Len(SortPasses)
         THEN [ret |-> TRUE, outKeys |-> r.outKeys, failedPass |-> 0]
         ELSE RunPasses(dateTimes, count, p + 1, r.outKeys, r.outKeys)

AfterPass(dateTimes, count, p, r) ==
    IF ~r.ret THEN [ret |-> FALSE, outKeys |-> r.outKeys, failedPass |-> p]
    ELSE IF p = Len(SortPasses)
         THEN [ret |-> TRUE, outKeys |-> r.outKeys, failedPass |-> 0]
         ELSE RunPasses(dateTimes, count, p + 1, r.outKeys, r.outKeys)

(* Mutant of SortDateTimes: the first pass starts from the key array in    *)
(* descending order instead of the identity.                               *)
SortDateTimesFromDescendingKeys(dateTimes, count, outKeys) ==
    IF outKeys = NULL
    THEN [ret |-> FALSE, outKeys |-> outKeys, failedPass |-> 0]
    ELSE LET ks == [i \in 0..(count - 1) |-> count - 1 - i]
             r == RunPasses(dateTimes, count, 1, ks, Deref(outKeys))
         IN  [ret |-> r.ret, outKeys |-> Ptr(r.outKeys), failedPass |-> r.failedPass]

(* outKeys is a pointer to the caller's buffer.  failedPass is a ghost     *)
(* field: the number of the pass whose CountSort returned false, 0 if      *)
(* none did.                                                               *)
SortDateTimes(dateTimes, count, outKeys) ==
    IF outKeys = NULL
    THEN [ret |-> FALSE, outKeys |-> outKeys, failedPass |-> 0]
    ELSE LET ks == [i \in 0..(count - 1) |-> i]
             r == RunPasses(dateTimes, count, 1, ks, Deref(outKeys))
         IN  [ret |-> r.ret, outKeys |-> Ptr(r.outKeys), failedPass |-> r.failedPass]

----------------------------------------------------------------------------
(* DistinctDateTimes *)

(* The scan over the sorted keys from position i on. *)
RECURSIVE DistinctScan(_, _, _, _, _, _)
DistinctScan(dateTimes, count, sorted, i, outKeys, newCount) ==
    IF i >= count THEN [outKeys |-> outKeys, newCount |-> newCount]
    ELSE IF i > 0 /\ DateTimesEqual(dateTimes[sorted[i - 1]], dateTimes[sorted[i]])
         THEN DistinctScan(dateTimes, count, sorted, i + 1, outKeys, newCount)
         ELSE DistinctScan(dateTimes, count, sorted, i + 1,
                           [outKeys EXCEPT ![newCount] = sorted[i]], newCount + 1)

(* Mutant of DistinctDateTimes: the scan runs whether or not the sort      *)
(* succeeded.                                                              *)
DistinctDateTimesScanAnyway(dateTimes, count, outKeys, outNewCount) ==
    IF outKeys = NULL \/ outNewCount = NULL
    THEN [ret |-> FALSE, outKeys |-> outKeys, outNewCount |-> outNewCount]
    ELSE LET sorted == SortDateTimes(dateTimes, count, Ptr(Array(count, 0)))
             scan == DistinctScan(dateTimes, count, Deref(sorted.outKeys), 0,
                                  Deref(outKeys), 0)
         IN  [ret |-> sorted.ret,
              outKeys |-> Ptr(scan.outKeys),
              outNewCount |-> Ptr(scan.newCount)]

(* outKeys and outNewCount are pointers; the result holds what they point  *)
(* to after the call.                                                      *)
DistinctDateTimes(dateTimes, count, outKeys, outNewCount) ==
    IF outKeys = NULL \/ outNewCount = NULL
    THEN [ret |-> FALSE, outKeys |-> outKeys, outNewCount |-> outNewCount]
    ELSE LET sorted == SortDateTimes(dateTimes, count, Ptr(Array(count, 0)))
             scan == IF sorted.ret
                     THEN DistinctScan(dateTimes, count, Deref(sorted.outKeys), 0,
                                       Deref(outKeys), 0)
                     ELSE [outKeys |-> Deref(outKeys), newCount |-> 0]
         IN  [ret |-> sorted.ret,
              outKeys |-> Ptr(scan.outKeys),
              outNewCount |-> Ptr(scan.newCount)]

----------------------------------------------------------------------------
(* OffsetAndWrap *)

Abs(x) == IF x < 0 THEN -x ELSE x

(* C's % on int: the remainder has the sign of the dividend. *)
CRem(a, b) == IF a >= 0 THEN a % b ELSE -((-a) % b)

(* The carry and the new value computed when newVal left [0, tempMax]. *)
WrapCarry(newVal, tempMax) ==
    IF newVal < 0
    THEN -1 - (Abs(newVal) \div (tempMax + 1))
    ELSE newVal \div (tempMax + 1)

WrapValue(newVal, tempMax) ==
    LET r == CRem(newVal, tempMax + 1)
    IN  IF r < 0 THEN (tempMax + 1) - Abs(r) ELSE r

(* v is a pointer to the unsigned value; the result holds the returned     *)
(* carry and what v points to after the call.                              *)
OffsetAndWrap(v, off, lo, hi) ==
    IF v = NULL THEN [carry |-> 0, val |-> v]
    ELSE IF ~InRange(Deref(v), lo, hi) THEN [carry |-> 0, val |-> v]
    ELSE LET tempVal == Deref(v) - lo
             tempMax == hi - lo
             newVal == tempVal + off
         IN  IF ~InRange(newVal, 0, tempMax)
             THEN [carry |-> WrapCarry(newVal, tempMax),
                   val |-> Ptr(WrapValue(newVal, tempMax) + lo)]
             ELSE [carry |-> 0, val |-> Ptr(newVal + lo)]

----------------------------------------------------------------------------
(* OffsetDateTime *)

(* The carry chain minute -> hour -> day -> month -> year, one operator    *)
(* per statement of the source, last statement first.  Each takes the      *)
(* DateTime as the statements before it left it and the result of the      *)
(* OffsetAndWrap call of the statement before it; days is the value of the *)
(* local `days`, kept as the ghost field dayCarry of the result.           *)

(* Mutant of OffsetDateTimeReturn: a carry out of the year field is        *)
(* reported as a failure.                                                  *)
OffsetDateTimeReturnCarryFails(dt, days, y) ==
    [ret |-> y.carry = 0 /\ IsDateTimeValid(Ptr([dt EXCEPT !.year = Deref(y.val)])),
     dateTime |-> Ptr([dt EXCEPT !.year = Deref(y.val)]),
     dayCarry |-> days]

(* return IsDateTimeValid(dateTime), after the year is stored. *)
OffsetDateTimeReturn(dt, days, y) ==
    [ret |-> IsDateTimeValid(Ptr([dt EXCEPT !.year = Deref(y.val)])),
     dateTime |-> Ptr([dt EXCEPT !.year = Deref(y.val)]),
     dayCarry |-> days]

(* OffsetAndWrap(&dateTime->year, years, 0, 9999), years = 0 + the carry   *)
(* of the month.                                                           *)
OffsetYear(dt, days, mo) ==
    OffsetDateTimeReturn([dt EXCEPT !.month = Deref(mo.val)], days,
                         OffsetAndWrap(Ptr(dt.year), 0 + mo.carry, 0, 9999))

(* years += OffsetAndWrap(&dateTime->month, months, 1, 12), months = 0 +   *)
(* the carry of the day.                                                   *)
OffsetMonth(dt, days, d) ==
    OffsetYear([dt EXCEPT !.day = Deref(d.val)], days,
               OffsetAndWrap(Ptr(dt.month), 0 + d.carry, 1, 12))

(* months += OffsetAndWrap(&dateTime->day, days, 1, 31), days = 0 + the    *)
(* carry of the hour.                                                      *)
OffsetDay(dt, h) ==
    OffsetMonth([dt EXCEPT !.hour = Deref(h.val)], 0 + h.carry,
                OffsetAndWrap(Ptr(dt.day), 0 + h.carry, 1, 31))

(* Mutant of OffsetHour: the carry of the minute is not added to hours. *)
OffsetHourNoCarry(dt, hours, mi) ==
    OffsetDay([dt EXCEPT !.minute = Deref(mi.val)],
              OffsetAndWrap(Ptr(dt.hour), hours, 0, 23))

(* days += OffsetAndWrap(&dateTime->hour, hours, 0, 23), hours increased   *)
(* by the carry of the minute.                                             *)
OffsetHour(dt, hours, mi) ==
    OffsetDay([dt EXCEPT !.minute = Deref(mi.val)],
              OffsetAndWrap(Ptr(dt.hour), hours + mi.carry, 0, 23))

(* dateTime is a pointer; the result holds the returned boolean, what      *)
(* dateTime points to after the call and the ghost field dayCarry.         *)
OffsetDateTime(dateTime, hours, minutes) ==
    IF dateTime = NULL THEN [ret |-> FALSE, dateTime |-> dateTime, dayCarry |-> 0]
    ELSE OffsetHour(Deref(dateTime), hours,
                    OffsetAndWrap(Ptr(Deref(dateTime).minute), minutes, 0, 59))

----------------------------------------------------------------------------
(* Characters and strings *)

(* The ASCII code of a character, named by a one-character string or, for  *)
(* the control characters, by its usual abbreviation.                      *)
Ord(c) ==
    CASE c = "NUL" -> 0
      [] c = "TAB" -> 9
      [] c = "LF" -> 10
      [] c = "VT" -> 11
      [] c = "FF" -> 12
      [] c = "CR" -> 13
      [] c = " " -> 32
      [] c = "+" -> 43
      [] c = "-" -> 45
      [] c = "/" -> 47
      [] c = "0" -> 48
      [] c = "9" -> 57
      [] c = ":" -> 58
      [] c = "T" -> 84
      [] c = "Z" -> 90
      [] c = "x" -> 120

(* src[pos]: the string's characters, then its terminating NUL. *)
CharAt(src, pos) == IF pos < Len(src) THEN src[pos + 1] ELSE Ord("NUL")

(* Mutant of IsSpace: only blank and newline count as whitespace. *)
IsSpaceBlankOrNewline(c) == c = Ord(" ") \/ c = Ord("LF")

(* isspace in the C locale. *)
IsSpace(c) == c = Ord(" ") \/ (c >= Ord("TAB") /\ c <= Ord("CR"))

(* The loop of CopyDigits from i on. *)
RECURSIVE CopyDigitsFrom(_, _, _, _, _)
CopyDigitsFrom(dst, src, start, length, i) ==
    IF i >= length THEN [ok |-> TRUE, dst |-> dst]
    ELSE LET c == CharAt(src, i + start)
         IN  IF c = Ord("NUL") \/ c < Ord("0") \/ c > Ord("9")
             THEN [ok |-> FALSE, dst |-> dst]
             ELSE CopyDigitsFrom([dst EXCEPT ![i] = c], src, start, length, i + 1)

(* dst is the destination buffer, outPos what *outPos holds before the     *)
(* call; the result holds both after the call.                             *)
CopyDigits(dst, src, start, length, outPos) ==
    LET r == CopyDigitsFrom(dst, src, start, length, 0)
    IN  IF ~r.ok THEN [ret |-> FALSE, dst |-> r.dst, outPos |-> outPos]
        ELSE [ret |-> TRUE, dst |-> r.dst, outPos |-> start + length]

(* The loop of IntFromChars from i on, with d the value of *dst. *)
RECURSIVE IntFromCharsFrom(_, _, _, _)
IntFromCharsFrom(d, src, n, i) ==
    IF i >= n THEN [ret |-> TRUE, dst |-> d]
    ELSE IF src[i] = Ord("NUL") \/ src[i] < Ord("0") \/ src[i] > Ord("9")
         THEN [ret |-> FALSE, dst |-> d]
         ELSE IntFromCharsFrom(d * 10 + (src[i] - Ord("0")), src, n, i + 1)

(* dst and src are pointers; the result holds the returned boolean and     *)
(* what dst points to after the call.                                      *)
IntFromChars(dst, src, n) ==
    IF dst = NULL \/ src = NULL THEN [ret |-> FALSE, dst |-> dst]
    ELSE LET r == IntFromCharsFrom(0, Deref(src), n, 0)
         IN  [ret |-> r.ret, dst |-> Ptr(r.dst)]

ExpectChar(src, off, v) == CharAt(src, off) = v

----------------------------------------------------------------------------
(* PrintDateTime / FPrintDateTime *)

(* The decimal digits of n >= 0, most significant first, as characters. *)
RECURSIVE Decimal(_)
Decimal(n) ==
    IF n < 10 THEN <<Ord("0") + n>>
    ELSE Append(Decimal(n \div 10), Ord("0") + (n % 10))

(* Mutant of ZeroPad: no padding. *)
NoPad(digits, width) == digits

(* printf's %0<width>d for n >= 0: at least width characters, padded with  *)
(* zeros on the left.                                                      *)
RECURSIVE ZeroPad(_, _)
ZeroPad(digits, width) ==
    IF Len(digits) >= width THEN digits
    ELSE ZeroPad(<<Ord("0")>> \o digits, width)

FormatD(n, width) == ZeroPad(Decimal(n), width)

(* The characters "%04d-%02d-%02dT%02d:%02d:%02dZ\n" writes to the stream; *)
(* nothing is written for a null pDateTime.                                *)
PrintDateTime(pDateTime) ==
    IF pDateTime = NULL THEN <<>>
    ELSE LET dt == Deref(pDateTime)
         IN  FormatD(dt.year, 4) \o <<Ord("-")>> \o
             FormatD(dt.month, 2) \o <<Ord("-")>> \o
             FormatD(dt.day, 2) \o <<Ord("T")>> \o
             FormatD(dt.hour, 2) \o <<Ord(":")>> \o
             FormatD(dt.minute, 2) \o <<Ord(":")>> \o
             FormatD(dt.second, 2) \o <<Ord("Z"), Ord("LF")>>

----------------------------------------------------------------------------
(* PopulateDateTimeFromIsoString *)

(* The parser's position while it reads the date and time: ok is FALSE     *)
(* once the function has returned false, pos is seekPos and dt the         *)
(* caller's DateTime as written so far.                                    *)

(* Mutant of StoreField: a field whose digits cannot be copied is cleared. *)
StoreFieldOrClear(st, length, field, copied) ==
    IF ~copied.ret THEN [st EXCEPT !.ok = FALSE, !.dt[field] = 0]
    ELSE [ok |-> TRUE, pos |-> copied.outPos,
          dt |-> [st.dt EXCEPT
                    ![field] = Deref(IntFromChars(Ptr(st.dt[field]), Ptr(copied.dst),
                                                  length).dst)]]

(* IntFromChars(&(dateTime-><field>), <buffer>, length) after a successful *)
(* CopyDigits, whose result is copied.                                     *)
StoreField(st, length, field, copied) ==
    IF ~copied.ret THEN [st EXCEPT !.ok = FALSE]
    ELSE [ok |-> TRUE, pos |-> copied.outPos,
          dt |-> [st.dt EXCEPT
                    ![field] = Deref(IntFromChars(Ptr(st.dt[field]), Ptr(copied.dst),
                                                  length).dst)]]

(* "Read <field>": CopyDigits into the field's local buffer, return false  *)
(* if it fails, else IntFromChars into dateTime-><field>.                  *)
ReadField(isoStr, st, length, field) ==
    IF ~st.ok THEN st
    ELSE StoreField(st, length, field,
                    CopyDigits(Array(length, Ord("NUL")), isoStr, st.pos, length,
                               st.pos))

(* "Consume <c>": ExpectChar(isoString, seekPos++, c), return false if it  *)
(* fails.                                                                  *)
Consume(isoStr, st, c) ==
    IF ~st.ok THEN st
    ELSE [st EXCEPT !.ok = ExpectChar(isoStr, st.pos, c), !.pos = st.pos + 1]

(* YYYY-MM-DDThh:mm:ss *)
ReadDateAndTime(isoStr, dt) ==
    ReadField(isoStr,
      Consume(isoStr, ReadField(isoStr,
        Consume(isoStr, ReadField(isoStr,
          Consume(isoStr, ReadField(isoStr,
            Consume(isoStr, ReadField(isoStr,
              Consume(isoStr, ReadField(isoStr, [ok |-> TRUE, pos |-> 0, dt |-> dt],
                                        4, "year"), Ord("-")),
              2, "month"), Ord("-")),
            2, "day"), Ord("T")),
          2, "hour"), Ord(":")),
        2, "minute"), Ord(":")),
      2, "second")

(* The offset digits after a '+' or '-' designator: HH in 0..23, ':', MM   *)
(* in 0..59; one operator per statement, last statement first.  ok is      *)
(* FALSE when the parser returns false here.                               *)

(* IntFromChars(&tzMinuteOffset, ...) and its range check; tzM is the      *)
(* result of IntFromChars.                                                 *)
CheckTzMinute(tzHourOffset, seekPos, tzM) ==
    IF ~tzM.ret \/ ~InRange(Deref(tzM.dst), 0, 59) THEN [ok |-> FALSE]
    ELSE [ok |-> TRUE, pos |-> seekPos, tzHourOffset |-> tzHourOffset,
          tzMinuteOffset |-> Deref(tzM.dst)]

(* "Read minute"; m is the result of CopyDigits. *)
ReadTzMinute(tzHourOffset, m) ==
    IF ~m.ret THEN [ok |-> FALSE]
    ELSE CheckTzMinute(tzHourOffset, m.outPos, IntFromChars(Ptr(0), Ptr(m.dst), 2))

(* IntFromChars(&tzHourOffset, ...), its range check and "Consume ':'";    *)
(* tzH is the result of IntFromChars.                                      *)
CheckTzHour(isoStr, seekPos, tzH) ==
    IF ~tzH.ret \/ ~InRange(Deref(tzH.dst), 0, 23) THEN [ok |-> FALSE]
    ELSE IF ~ExpectChar(isoStr, seekPos, Ord(":")) THEN [ok |-> FALSE]
    ELSE ReadTzMinute(Deref(tzH.dst),
                      CopyDigits(Array(2, Ord("NUL")), isoStr, seekPos + 1, 2,
                                 seekPos + 1))

(* "Read hour"; h is the result of CopyDigits. *)
ReadTzHour(isoStr, h) ==
    IF ~h.ret THEN [ok |-> FALSE]
    ELSE CheckTzHour(isoStr, h.outPos, IntFromChars(Ptr(0), Ptr(h.dst), 2))

ReadTimeZone(isoStr, seekPos) ==
    ReadTzHour(isoStr, CopyDigits(Array(2, Ord("NUL")), isoStr, seekPos, 2, seekPos))

(* Mutant of SignedOffset: '-' negates the hours only. *)
SignedOffsetHoursOnly(tzd, tzHourOffset, tzMinuteOffset) ==
    IF tzd = Ord("-")
    THEN [hours |-> tzHourOffset * (-1), minutes |-> tzMinuteOffset]
    ELSE [hours |-> tzHourOffset, minutes |-> tzMinuteOffset]

(* The hour and minute offsets handed to OffsetDateTime for designator tzd *)
(* ('-' multiplies both by -1).                                            *)
SignedOffset(tzd, tzHourOffset, tzMinuteOffset) ==
    IF tzd = Ord("-")
    THEN [hours |-> tzHourOffset * (-1), minutes |-> tzMinuteOffset * (-1)]
    ELSE [hours |-> tzHourOffset, minutes |-> tzMinuteOffset]

(* "Consume trailing whitespace": the first position from seekPos on that  *)
(* holds no whitespace character.                                          *)
RECURSIVE SkipSpace(_, _)
SkipSpace(isoStr, seekPos) ==
    IF IsSpace(CharAt(isoStr, seekPos)) THEN SkipSpace(isoStr, seekPos + 1)
    ELSE seekPos

(* Ghost record of the call of OffsetDateTime made by the parser: whether  *)
(* it was called, the hours and minutes handed to it, and the carry its    *)
(* hour field handed to its day field.                                     *)
NoOffsetCall == [called |-> FALSE, hours |-> 0, minutes |-> 0, dayCarry |-> 0]

(* The rest of PopulateDateTimeFromIsoString, one operator per step, last  *)
(* step first.  Each result holds the returned boolean, what dateTime      *)
(* points to after the call, and the ghost record of the OffsetDateTime    *)
(* call.                                                                   *)

(* From the end of the designator on: whitespace, end of string, validity. *)
FinishParse(isoStr, seekPos, dt, offsetCall) ==
    IF ~ExpectChar(isoStr, SkipSpace(isoStr, seekPos), Ord("NUL"))
    THEN [ret |-> FALSE, dateTime |-> Ptr(dt), offsetCall |-> offsetCall]
    ELSE [ret |-> IsDateTimeValid(Ptr(dt)), dateTime |-> Ptr(dt),
          offsetCall |-> offsetCall]

(* if (!OffsetDateTime(...)) return false; shifted is the result of        *)
(* OffsetDateTime, off the offsets handed to it.                           *)
AfterOffsetDateTime(isoStr, seekPos, off, shifted) ==
    IF ~shifted.ret
    THEN [ret |-> FALSE, dateTime |-> shifted.dateTime,
          offsetCall |-> [called |-> TRUE, hours |-> off.hours,
                          minutes |-> off.minutes, dayCarry |-> shifted.dayCarry]]
    ELSE FinishParse(isoStr, seekPos, Deref(shifted.dateTime),
                     [called |-> TRUE, hours |-> off.hours, minutes |-> off.minutes,
                      dayCarry |-> shifted.dayCarry])

(* The sign is applied and OffsetDateTime called; off is the signed        *)
(* offset.                                                                 *)
ApplyOffset(isoStr, seekPos, dt, off) ==
    AfterOffsetDateTime(isoStr, seekPos, off,
                        OffsetDateTime(Ptr(dt), off.hours, off.minutes))

(* The branch tzd == '+' || tzd == '-'; tz is the result of reading the    *)
(* offset digits.                                                          *)
AfterTimeZone(isoStr, dt, tzd, tz) ==
    IF ~tz.ok
    THEN [ret |-> FALSE, dateTime |-> Ptr(dt), offsetCall |-> NoOffsetCall]
    ELSE ApplyOffset(isoStr, tz.pos, dt,
                     SignedOffset(tzd, tz.tzHourOffset, tz.tzMinuteOffset))

(* "Read time zone": tzd = isoString[seekPos++], seekPos already           *)
(* incremented.                                                            *)
AfterDesignator(isoStr, seekPos, dt, tzd) ==
    IF tzd = Ord("+") \/ tzd = Ord("-")
    THEN AfterTimeZone(isoStr, dt, tzd, ReadTimeZone(isoStr, seekPos))
    ELSE IF tzd # Ord("Z")
         THEN [ret |-> FALSE, dateTime |-> Ptr(dt), offsetCall |-> NoOffsetCall]
         ELSE FinishParse(isoStr, seekPos, dt, NoOffsetCall)

(* After the date and time; st is the result of reading them. *)
AfterDateAndTime(isoStr, st) ==
    IF ~st.ok
    THEN [ret |-> FALSE, dateTime |-> Ptr(st.dt), offsetCall |-> NoOffsetCall]
    ELSE AfterDesignator(isoStr, st.pos + 1, st.dt, CharAt(isoStr, st.pos))

(* dateTime is a pointer to the caller's DateTime. *)
PopulateDateTimeFromIsoString(isoStr, dateTime) ==
    IF dateTime = NULL
    THEN [ret |-> FALSE, dateTime |-> dateTime, offsetCall |-> NoOffsetCall]
    ELSE AfterDateAndTime(isoStr, ReadDateAndTime(isoStr, Deref(dateTime)))

----------------------------------------------------------------------------
(* Bounds of the model *)

MaxKeys == 3      \* CountSort scenario: largest keyCount
NumValues == 3    \* CountSort scenario: length of the values array
MaxDigit == 2     \* CountSort scenario: largest value in the values array
MaxCount == 3     \* Sort scenario: largest number of DateTimes

(* All arrays of at most n elements drawn from S. *)
ArraysUpTo(n, S) == UNION {[0..(k - 1) -> S] : k \in 0..n}

Count(a) == Cardinality(DOMAIN a)

----------------------------------------------------------------------------
(* Values of the variables a scenario does not use *)

IdleCountSort ==
    /\ values = NULL /\ selector = NULL /\ maxValue = 0 /\ keys = <<>>
IdleSort ==
    /\ dates = <<>> /\ distinctKeys = <<>> /\ numDistinctKeys = 0
IdleWrap ==
    /\ val = 0 /\ offset = 0 /\ min = 0 /\ max = 0 /\ carry = 0
IdleParse ==
    /\ isoString = <<>> /\ date = MkDateTime(0, 0, 0, 0, 0, 0)
    /\ tzCall = NoOffsetCall

----------------------------------------------------------------------------
(* Scenario CountSort: a caller like TestCountSort, with a values array, a *)
(* key array into it and a zeroed output buffer.  values and the selector  *)
(* may be absent.                                                          *)

InitCountSort ==
    /\ scenario = "CountSort" /\ pc = "call"
    /\ values \in {NULL} \cup {Ptr(a) : a \in [0..(NumValues - 1) -> 0..MaxDigit]}
    /\ selector \in {NULL, Ptr("TestValueSelector")}
    /\ maxValue \in 0..MaxDigit
    /\ keys \in ArraysUpTo(MaxKeys, 0..(NumValues - 1))
    /\ sortedKeys = Array(Count(keys), 0)
    /\ success = FALSE
    /\ old = sortedKeys
    /\ IdleSort /\ IdleWrap /\ IdleParse

CallCountSort ==
    /\ scenario = "CountSort" /\ pc = "call"
    /\ LET r == CountSort(values, selector, maxValue, Count(keys), keys, sortedKeys)
       IN  /\ success' = r.ret
           /\ sortedKeys' = r.outKeys
    /\ pc' = "done"
    /\ UNCHANGED <<scenario, csVars, sortVars, wrapVars, parseVars, old>>

----------------------------------------------------------------------------
(* Scenario Sort: a caller like TestSortDateTimes / TestDistinctDateTimes  *)
(* or main, with an array of DateTimes and zeroed output buffers.  main    *)
(* does not initialise its count variable; DistinctDateTimes never reads   *)
(* it, so it starts at one stale value that differs from every count the   *)
(* function can store.                                                     *)

(* The DateTimes of the scenario: the smallest valid DateTime, and the     *)
(* DateTimes that differ from it in one sort digit, which holds its        *)
(* largest valid value.                                                    *)
ValidSamples ==
    { MkDateTime(0, 1, 1, 0, 0, 0),
      MkDateTime(0, 1, 1, 0, 0, 59),
      MkDateTime(0, 1, 1, 0, 59, 0),
      MkDateTime(0, 1, 1, 23, 0, 0),
      MkDateTime(0, 1, 31, 0, 0, 0),
      MkDateTime(0, 12, 1, 0, 0, 0),
      MkDateTime(9, 1, 1, 0, 0, 0),
      MkDateTime(90, 1, 1, 0, 0, 0),
      MkDateTime(900, 1, 1, 0, 0, 0),
      MkDateTime(9000, 1, 1, 0, 0, 0) }

(* DateTimes with one field out of its range: above the maxValue of its    *)
(* pass, or (month 0) below its range but within the pass's digits.        *)
InvalidSamples ==
    { MkDateTime(0, 1, 1, 0, 0, 60),
      MkDateTime(0, 1, 1, 0, 60, 0),
      MkDateTime(0, 1, 1, 24, 0, 0),
      MkDateTime(0, 1, 32, 0, 0, 0),
      MkDateTime(0, 13, 1, 0, 0, 0),
      MkDateTime(0, 0, 1, 0, 0, 0) }

(* The valid DateTimes that accompany the invalid ones: they differ in the  *)
(* digits of the first two passes.                                         *)
LowSamples ==
    { MkDateTime(0, 1, 1, 0, 0, 0),
      MkDateTime(0, 1, 1, 0, 0, 59),
      MkDateTime(0, 1, 1, 0, 59, 0) }

InitSort ==
    /\ scenario = "Sort" /\ pc = "call"
    /\ dates \in ArraysUpTo(MaxCount, ValidSamples)
                 \cup ArraysUpTo(MaxCount, InvalidSamples \cup LowSamples)
    /\ sortedKeys = Array(Count(dates), 0)
    /\ distinctKeys = Array(Count(dates), 0)
    /\ numDistinctKeys = 7
    /\ success = FALSE
    /\ old = [sortedKeys |-> sortedKeys, distinctKeys |-> distinctKeys,
              numDistinctKeys |-> numDistinctKeys]
    /\ IdleCountSort /\ IdleWrap /\ IdleParse

CallSortDateTimes ==
    /\ scenario = "Sort" /\ pc = "call"
    /\ LET r == SortDateTimes(dates, Count(dates), Ptr(sortedKeys))
       IN  /\ success' = r.ret
           /\ sortedKeys' = Deref(r.outKeys)
    /\ pc' = "sorted"
    /\ UNCHANGED <<scenario, csVars, sortVars, wrapVars, parseVars, old>>

CallDistinctDateTimes ==
    /\ scenario = "Sort" /\ pc = "call"
    /\ LET r == DistinctDateTimes(dates, Count(dates), Ptr(distinctKeys),
                                  Ptr(numDistinctKeys))
       IN  /\ success' = r.ret
           /\ distinctKeys' = Deref(r.outKeys)
           /\ numDistinctKeys' = Deref(r.outNewCount)
    /\ pc' = "distinct"
    /\ UNCHANGED <<scenario, csVars, dates, sortedKeys, wrapVars, parseVars, old>>

NextCountSort == CallCountSort
SpecCountSort == InitCountSort /\ [][NextCountSort]_vars

NextSort == CallSortDateTimes \/ CallDistinctDateTimes
SpecSort == InitSort /\ [][NextSort]_vars

----------------------------------------------------------------------------
(* Scenario Wrap: a caller like DoOffsetAndWrapTest. *)

MaxMin == 2       \* Wrap scenario: largest lower end of a range
MaxOffset == 61   \* Wrap scenario: largest magnitude of an offset
EdgeWidth == 2    \* Wrap scenario: start values lie this close to an end of the range

(* The widths max - min + 1 of the ranges: small ones, those of the tests  *)
(* (10, 12) and those of OffsetDateTime (60, 24, 31, 12, 10000).           *)
Spans == {1, 2, 3, 10, 12, 24, 31, 60, 10000}

(* Start values: within EdgeWidth of an end of [lo, hi], and the value     *)
(* just above the range.                                                   *)
StartValues(lo, hi) ==
    {v \in lo..hi : v - lo <= EdgeWidth \/ hi - v <= EdgeWidth} \cup {hi + 1}

InitWrap ==
    /\ scenario = "Wrap" /\ pc = "call"
    /\ min \in 0..MaxMin
    /\ \E span \in Spans : max = min + span - 1
    /\ val \in StartValues(min, max)
    /\ offset \in (-MaxOffset)..MaxOffset
    /\ carry = 0
    /\ success = FALSE
    /\ sortedKeys = <<>>
    /\ old = val
    /\ IdleCountSort /\ IdleSort /\ IdleParse

CallOffsetAndWrap ==
    /\ scenario = "Wrap" /\ pc = "call"
    /\ LET r == OffsetAndWrap(Ptr(val), offset, min, max)
       IN  /\ val' = Deref(r.val)
           /\ carry' = r.carry
    /\ pc' = "done"
    /\ UNCHANGED <<scenario, csVars, sortedKeys, success, sortVars, offset, min, max,
                   parseVars, old>>

NextWrap == CallOffsetAndWrap
SpecWrap == InitWrap /\ [][NextWrap]_vars

----------------------------------------------------------------------------
(* Scenario Parse: a caller like TestPopulateDateTimeFromIsoString or      *)
(* IngestDateTimes hands one line to PopulateDateTimeFromIsoString.        *)

MaxTrailing == 2  \* Parse scenario: longest run of trailing whitespace

(* Text of the form YYYY-MM-DDThh:mm:ss for the six numbers of dt. *)
TimeText(dt) ==
    FormatD(dt.year, 4) \o <<Ord("-")>> \o FormatD(dt.month, 2) \o <<Ord("-")>> \o
    FormatD(dt.day, 2) \o <<Ord("T")>> \o FormatD(dt.hour, 2) \o <<Ord(":")>> \o
    FormatD(dt.minute, 2) \o <<Ord(":")>> \o FormatD(dt.second, 2)

(* Text of the form +HH:MM or -HH:MM. *)
TzText(sign, hh, mm) ==
    <<Ord(sign)>> \o FormatD(hh, 2) \o <<Ord(":")>> \o FormatD(mm, 2)

(* What the caller's DateTime holds before the call: zeros (calloc in      *)
(* IngestDateTimes) or the fields a previous line left there.              *)
ZeroDate == MkDateTime(0, 0, 0, 0, 0, 0)
StaleDate == MkDateTime(1999, 11, 30, 11, 11, 11)
OldDates == {ZeroDate, StaleDate}

BaseDate == MkDateTime(2085, 9, 28, 20, 33, 29)

(* Family A: the base date-time with one field at or just beyond an end of *)
(* its range, every kind of designator, and a short tail.                  *)
FieldVariants ==
    {BaseDate}
    \cup {[BaseDate EXCEPT !.year = v] : v \in {0, 9999}}
    \cup {[BaseDate EXCEPT !.month = v] : v \in {0, 1, 12, 13, 99}}
    \cup {[BaseDate EXCEPT !.day = v] : v \in {0, 1, 31, 32}}
    \cup {[BaseDate EXCEPT !.hour = v] : v \in {0, 23, 24}}
    \cup {[BaseDate EXCEPT !.minute = v] : v \in {0, 59, 60}}
    \cup {[BaseDate EXCEPT !.second = v] : v \in {0, 59, 60}}

OffsetVariants ==
    {<<0, 0>>, <<2, 20>>, <<12, 30>>, <<23, 59>>, <<24, 0>>, <<0, 60>>}

Designators ==
    {<<>>, <<Ord("Z")>>, <<Ord("x")>>}
    \cup {TzText(sign, o[1], o[2]) : sign \in {"+", "-"}, o \in OffsetVariants}

ShortTails == {<<>>, <<Ord("LF")>>, <<Ord("x")>>}

LinesA == {TimeText(dt) \o tzd \o tail :
               dt \in FieldVariants, tzd \in Designators, tail \in ShortTails}

(* Family B: well-formed lines with an offset, over dates at the ends of   *)
(* the day, month and year ranges and times around the ends of the day.    *)
TzDates ==
    { <<0, 1, 1>>, <<2085, 9, 27>>, <<2085, 9, 28>>, <<2085, 1, 31>>,
      <<2085, 12, 31>>, <<9999, 12, 31>> }
TzHours == {0, 8, 20, 22, 23}
TzMinutes == {0, 3, 30, 34, 53, 59}
TzSeconds == {0, 29}
TzOffsetHours == {0, 1, 2, 12, 23}
TzOffsetMinutes == {0, 1, 20, 30, 59}

LinesB == {TimeText(MkDateTime(d[1], d[2], d[3], h, mi, sec)) \o TzText(sign, oh, om) :
               d \in TzDates, h \in TzHours, mi \in TzMinutes, sec \in TzSeconds,
               sign \in {"+", "-"}, oh \in TzOffsetHours, om \in TzOffsetMinutes}

(* Family C: every run of at most MaxTrailing whitespace characters after  *)
(* a well-formed line, then nothing or one more character.                 *)
WhiteSpace == {Ord(" "), Ord("TAB"), Ord("LF"), Ord("VT"), Ord("FF"), Ord("CR")}
WhiteRuns == UNION {[1..k -> WhiteSpace] : k \in 0..MaxTrailing}

LinesC == {TimeText(BaseDate) \o tzd \o run \o garbage :
               tzd \in {<<Ord("Z")>>, TzText("+", 12, 30)}, run \in WhiteRuns,
               garbage \in {<<>>, <<Ord("x")>>, <<Ord("0")>>}}

(* Family D: a well-formed line cut short, or with one character replaced. *)
Truncations(line) == {SubSeq(line, 1, k) : k \in 0..Len(line)}
Replacements(line) ==
    {[line EXCEPT ![k] = c] :
        k \in 1..Len(line),
        c \in {Ord("x"), Ord("/"), Ord(":"), Ord("-"), Ord(" "), Ord("0")}}

LinesD == UNION {Truncations(line) \cup Replacements(line) :
                    line \in {TimeText(BaseDate) \o <<Ord("Z")>>,
                              TimeText(BaseDate) \o TzText("-", 2, 20)}}

InitParse ==
    /\ scenario = "Parse" /\ pc = "call"
    /\ \/ isoString \in LinesA \cup LinesC \cup LinesD /\ date \in OldDates
       \/ isoString \in LinesB /\ date = ZeroDate
    /\ tzCall = NoOffsetCall
    /\ success = FALSE
    /\ sortedKeys = <<>>
    /\ old = date
    /\ IdleCountSort /\ IdleSort /\ IdleWrap

(* Scenario RoundTrip: PrintDateTime (FPrintDateTime) renders a DateTime   *)
(* of the caller's buffer and the text is parsed again.                    *)
RoundTripDates ==
    {MkDateTime(y, mo, d, h, mi, sec) :
        y \in {0, 7, 42, 999, 2085, 9999}, mo \in {1, 9, 12}, d \in {1, 28, 31},
        h \in {0, 20, 23}, mi \in {0, 33, 59}, sec \in {0, 29, 59}}
    \cup {MkDateTime(10000, 1, 1, 0, 0, 0), MkDateTime(2085, 0, 1, 0, 0, 0),
          MkDateTime(2085, 9, 28, 20, 33, 100)}

InitRoundTrip ==
    /\ scenario = "RoundTrip" /\ pc = "print"
    /\ dates \in {Array(1, d) : d \in RoundTripDates}
    /\ isoString = <<>>
    /\ date = ZeroDate
    /\ tzCall = NoOffsetCall
    /\ success = FALSE
    /\ sortedKeys = <<>>
    /\ old = date
    /\ distinctKeys = <<>> /\ numDistinctKeys = 0
    /\ IdleCountSort /\ IdleWrap

CallPrintDateTime ==
    /\ scenario = "RoundTrip" /\ pc = "print"
    /\ isoString' = PrintDateTime(Ptr(dates[0]))
    /\ pc' = "call"
    /\ UNCHANGED <<scenario, csVars, sortedKeys, success, sortVars, wrapVars, date,
                   tzCall, old>>

CallPopulateDateTimeFromIsoString ==
    /\ scenario \in {"Parse", "RoundTrip"} /\ pc = "call"
    /\ LET r == PopulateDateTimeFromIsoString(isoString, Ptr(date))
       IN  /\ success' = r.ret
           /\ date' = Deref(r.dateTime)
           /\ tzCall' = r.offsetCall
    /\ pc' = "done"
    /\ UNCHANGED <<scenario, csVars, sortedKeys, sortVars, wrapVars, isoString, old>>

InitParseSpec == InitParse \/ InitRoundTrip
NextParse == CallPrintDateTime \/ CallPopulateDateTimeFromIsoString
SpecParse == InitParseSpec /\ [][NextParse]_vars

----------------------------------------------------------------------------
(* The whole program: every scenario. *)

Init == InitCountSort \/ InitSort \/ InitWrap \/ InitParse \/ InitRoundTrip
Next ==
    \/ CallCountSort
    \/ CallSortDateTimes
    \/ CallDistinctDateTimes
    \/ CallOffsetAndWrap
    \/ CallPrintDateTime
    \/ CallPopulateDateTimeFromIsoString
Spec == Init /\ [][Next]_vars

----------------------------------------------------------------------------
(* Properties.  Vocabulary of the statements, defined apart from the       *)
(* operators above.                                                        *)

(* The composite key of a DateTime and the lexicographic order on keys. *)
LexKey(dt) == <<dt.year, dt.month, dt.day, dt.hour, dt.minute, dt.second>>
LexLess(a, b) ==
    \E k \in 1..Len(a) : (\A j \in 1..(k - 1) : a[j] = b[j]) /\ a[k] < b[k]

FieldsInRange(dt) ==
    /\ dt.year \in 0..9999 /\ dt.month \in 1..12 /\ dt.day \in 1..31
    /\ dt.hour \in 0..23 /\ dt.minute \in 0..59 /\ dt.second \in 0..59

AllValid(ds) == \A i \in DOMAIN ds : FieldsInRange(ds[i])

IsPermutation(a, n) ==
    DOMAIN a = 0..(n - 1) /\ {a[i] : i \in 0..(n - 1)} = 0..(n - 1)

(* C1: for valid DateTimes SortDateTimes returns true and outKeys is a     *)
(* permutation of [0, count) in which no DateTime is lexicographically     *)
(* less than the one before it.                                            *)
C1_SortAscending ==
    (scenario = "Sort" /\ pc = "sorted" /\ AllValid(dates)) =>
        /\ success
        /\ IsPermutation(sortedKeys, Count(dates))
        /\ \A i \in 1..(Count(dates) - 1) :
              ~LexLess(LexKey(dates[sortedKeys[i]]), LexKey(dates[sortedKeys[i - 1]]))

(* Three valid DateTimes given in descending order have been sorted. *)
C1_Witness ==
    /\ scenario = "Sort" /\ pc = "sorted" /\ success
    /\ Count(dates) = 3 /\ AllValid(dates)
    /\ LexLess(LexKey(dates[2]), LexKey(dates[1]))
    /\ LexLess(LexKey(dates[1]), LexKey(dates[0]))
    /\ sortedKeys[0] = 2 /\ sortedKeys[1] = 1 /\ sortedKeys[2] = 0

(* C2: for valid DateTimes DistinctDateTimes returns true, outNewCount is  *)
(* the number of distinct DateTime values, and the first outNewCount       *)
(* entries of outKeys denote every value once, in strictly ascending       *)
(* order.                                                                  *)
C2_DistinctExact ==
    (scenario = "Sort" /\ pc = "distinct" /\ AllValid(dates)) =>
        /\ success
        /\ numDistinctKeys = Cardinality({dates[i] : i \in DOMAIN dates})
        /\ \A i \in 0..(numDistinctKeys - 1) : distinctKeys[i] \in DOMAIN dates
        /\ \A i \in 1..(numDistinctKeys - 1) :
              LexLess(LexKey(dates[distinctKeys[i - 1]]), LexKey(dates[distinctKeys[i]]))
        /\ {dates[distinctKeys[i]] : i \in 0..(numDistinctKeys - 1)}
              = {dates[i] : i \in DOMAIN dates}

(* {A, B, A} with B before A in the order: the result is {B, A}, count 2. *)
C2_Witness ==
    /\ scenario = "Sort" /\ pc = "distinct" /\ success
    /\ Count(dates) = 3 /\ AllValid(dates)
    /\ dates[0] = dates[2] /\ LexLess(LexKey(dates[1]), LexKey(dates[0]))
    /\ numDistinctKeys = 2
    /\ distinctKeys[0] = 1 /\ dates[distinctKeys[1]] = dates[0]

(* C3: when every key's digit is in [0, maxValue] CountSort returns true,  *)
(* the digits of outKeys are non-decreasing, and for every digit the keys  *)
(* with that digit are the same, in the same order, in outKeys as in keys  *)
(* (which makes outKeys a stable rearrangement of keys).                   *)
KeysWithDigit(a, v) ==
    LET HasDigit(k) == Deref(values)[k] = v
    IN  SelectSeq(ToSeq(a, Count(a)), HasDigit)

DigitsInRange ==
    /\ values # NULL /\ selector # NULL
    /\ \A i \in DOMAIN keys : Deref(values)[keys[i]] \in 0..maxValue

C3_CountSortStable ==
    (scenario = "CountSort" /\ pc = "done" /\ DigitsInRange) =>
        /\ success
        /\ DOMAIN sortedKeys = DOMAIN keys
        /\ \A i \in 1..(Count(keys) - 1) :
              Deref(values)[sortedKeys[i - 1]] <= Deref(values)[sortedKeys[i]]
        /\ \A v \in 0..maxValue : KeysWithDigit(sortedKeys, v) = KeysWithDigit(keys, v)

(* Keys 2 and 0 have the same digit, key 1 a smaller one: key 1 moved to   *)
(* the front and 2 stayed before 0.                                        *)
C3_Witness ==
    /\ scenario = "CountSort" /\ pc = "done" /\ success /\ DigitsInRange
    /\ Count(keys) = 3 /\ keys[0] = 2 /\ keys[1] = 1 /\ keys[2] = 0
    /\ Deref(values)[2] = Deref(values)[0] /\ Deref(values)[1] < Deref(values)[0]
    /\ sortedKeys[0] = 1 /\ sortedKeys[1] = 2 /\ sortedKeys[2] = 0

(* C4: for a start value v in [min, max], OffsetAndWrap stores a value in  *)
(* [min, max] and returns the carry floor((v - min + offset) / span), the  *)
(* stored value being min + (v - min + offset) mod span, with              *)
(* span = max - min + 1.  (\div and % round toward negative infinity.)     *)
C4_FloorCarry ==
    (scenario = "Wrap" /\ pc = "done" /\ old \in min..max) =>
        /\ val \in min..max
        /\ carry = (old - min + offset) \div (max - min + 1)
        /\ val - min = (old - min + offset) % (max - min + 1)

----------------------------------------------------------------------------
(* The grammar of a line, character by character.  Positions count from 0  *)
(* as in the source: YYYY-MM-DDThh:mm:ss occupies 0..18, the designator is *)
(* at 19, the offset HH:MM at 20..24.                                      *)

At(line, pos) == line[pos + 1]
IsDigitAt(line, pos) == pos < Len(line) /\ At(line, pos) \in 48..57
DigitsAt(line, positions) == \A pos \in positions : IsDigitAt(line, pos)
IsCharAt(line, pos, c) == pos < Len(line) /\ At(line, pos) = Ord(c)

(* The number written by the two digits at pos, pos + 1. *)
TwoDigits(line, pos) == (At(line, pos) - 48) * 10 + (At(line, pos + 1) - 48)
YearOf(line) == TwoDigits(line, 0) * 100 + TwoDigits(line, 2)

(* How far the line follows the grammar: up to the digits of each field. *)
YearRead(line) == DigitsAt(line, 0..3)
MonthRead(line) == YearRead(line) /\ IsCharAt(line, 4, "-") /\ DigitsAt(line, 5..6)
DayRead(line) == MonthRead(line) /\ IsCharAt(line, 7, "-") /\ DigitsAt(line, 8..9)
HourRead(line) == DayRead(line) /\ IsCharAt(line, 10, "T") /\ DigitsAt(line, 11..12)
MinuteRead(line) == HourRead(line) /\ IsCharAt(line, 13, ":") /\ DigitsAt(line, 14..15)
SecondRead(line) == MinuteRead(line) /\ IsCharAt(line, 16, ":") /\ DigitsAt(line, 17..18)

OnlyWhiteSpaceFrom(line, pos) ==
    \A q \in pos..(Len(line) - 1) : At(line, q) \in {32, 9, 10, 11, 12, 13}

ZuluTail(line) == IsCharAt(line, 19, "Z") /\ OnlyWhiteSpaceFrom(line, 20)

OffsetTail(line) ==
    /\ IsCharAt(line, 19, "+") \/ IsCharAt(line, 19, "-")
    /\ DigitsAt(line, 20..21) /\ IsCharAt(line, 22, ":") /\ DigitsAt(line, 23..24)
    /\ TwoDigits(line, 20) \in 0..23 /\ TwoDigits(line, 23) \in 0..59
    /\ OnlyWhiteSpaceFrom(line, 25)

(* The six numbers written in a line whose date and time follow the        *)
(* grammar.                                                                *)
Written(line) ==
    MkDateTime(YearOf(line), TwoDigits(line, 5), TwoDigits(line, 8),
               TwoDigits(line, 11), TwoDigits(line, 14), TwoDigits(line, 17))

(* A line with an offset designator that follows the grammar and writes    *)
(* valid fields.                                                           *)
WellFormedWithOffset(line) ==
    SecondRead(line) /\ OffsetTail(line) /\ FieldsInRange(Written(line))

(* The minute of the day written in the line, and the offset in minutes. *)
MinuteOfDay(line) == TwoDigits(line, 11) * 60 + TwoDigits(line, 14)
OffsetMinutes(line) == TwoDigits(line, 20) * 60 + TwoDigits(line, 23)

ParseDone == scenario = "Parse" /\ pc = "done"

(* C5: a well-formed line with valid fields and the offset +HH:MM parses   *)
(* to the minute of the day (hh*60 + mm + HH*60 + MM) mod 1440, with       *)
(* -HH:MM to (hh*60 + mm - (HH*60 + MM)) mod 1440, seconds unchanged; the  *)
(* three lines of the test all parse to 2085-09-28T20:33:29.               *)
C5Examples ==
    { TimeText(MkDateTime(2085, 9, 28, 8, 3, 29)) \o TzText("+", 12, 30),
      TimeText(MkDateTime(2085, 9, 28, 22, 53, 29)) \o TzText("-", 2, 20),
      TimeText(MkDateTime(2085, 9, 27, 20, 34, 29)) \o TzText("+", 23, 59) }

C5_OffsetArithmetic ==
    (ParseDone /\ WellFormedWithOffset(isoString)) =>
        /\ success
        /\ IsCharAt(isoString, 19, "+") =>
              date.hour * 60 + date.minute
                 = (MinuteOfDay(isoString) + OffsetMinutes(isoString)) % 1440
        /\ IsCharAt(isoString, 19, "-") =>
              date.hour * 60 + date.minute
                 = (MinuteOfDay(isoString) - OffsetMinutes(isoString)) % 1440
        /\ date.hour \in 0..23 /\ date.minute \in 0..59
        /\ date.second = TwoDigits(isoString, 17)
        /\ isoString \in C5Examples => date = MkDateTime(2085, 9, 28, 20, 33, 29)

(* 2085-09-27T20:34:29+23:59 has been parsed: the minutes and the hours    *)
(* both wrapped.                                                           *)
C5_Witness ==
    /\ ParseDone /\ success
    /\ isoString = TimeText(MkDateTime(2085, 9, 27, 20, 34, 29)) \o TzText("+", 23, 59)
    /\ date = MkDateTime(2085, 9, 28, 20, 33, 29)

(* C6 as stated: for '+' the parser hands -HH and -MM to OffsetDateTime,   *)
(* for '-' it hands +HH and +MM.                                           *)
C6_SignNegated ==
    (ParseDone /\ tzCall.called) =>
        /\ IsCharAt(isoString, 19, "+") =>
              /\ tzCall.hours = -TwoDigits(isoString, 20)
              /\ tzCall.minutes = -TwoDigits(isoString, 23)
        /\ IsCharAt(isoString, 19, "-") =>
              /\ tzCall.hours = TwoDigits(isoString, 20)
              /\ tzCall.minutes = TwoDigits(isoString, 23)

(* C6 as amended: for '+' the parser hands +HH and +MM to OffsetDateTime   *)
(* (it adds the offset), for '-' it hands -HH and -MM (it subtracts it).   *)
C6_SignApplied ==
    (ParseDone /\ tzCall.called) =>
        /\ IsCharAt(isoString, 19, "+") =>
              /\ tzCall.hours = TwoDigits(isoString, 20)
              /\ tzCall.minutes = TwoDigits(isoString, 23)
        /\ IsCharAt(isoString, 19, "-") =>
              /\ tzCall.hours = -TwoDigits(isoString, 20)
              /\ tzCall.minutes = -TwoDigits(isoString, 23)

(* ...-02:20 has been parsed: OffsetDateTime got -2 hours and -20 minutes. *)
C6_Witness ==
    /\ ParseDone /\ success /\ tzCall.called
    /\ isoString = TimeText(MkDateTime(2085, 9, 28, 22, 53, 29)) \o TzText("-", 2, 20)
    /\ tzCall.hours = -2 /\ tzCall.minutes = -20

(* C7: the parser returns true exactly when the line is YYYY-MM-DDThh:mm:ss *)
(* followed by Z or by +/-HH:MM with HH in 0..23 and MM in 0..59, then     *)
(* only whitespace, and the written fields are in range; and whenever it   *)
(* returns true the resulting DateTime has all six fields in range.        *)
Accepted(line) ==
    /\ SecondRead(line)
    /\ ZuluTail(line) \/ OffsetTail(line)
    /\ FieldsInRange(Written(line))

C7_AcceptsExactlyGrammar ==
    ParseDone =>
        /\ success <=> Accepted(isoString)
        /\ success => FieldsInRange(date)

(* A line with an offset and two trailing whitespace characters, a tab     *)
(* among them, has been accepted.                                          *)
C7_Witness ==
    /\ ParseDone /\ success
    /\ Len(isoString) = 27 /\ IsCharAt(isoString, 19, "+")
    /\ At(isoString, 25) = Ord("TAB")

(* C8: a valid DateTime rendered by PrintDateTime (zero-padded, Z, newline) *)
(* parses successfully to a DateTime equal to it field by field.           *)
C8_RoundTrip ==
    (scenario = "RoundTrip" /\ pc = "done" /\ FieldsInRange(dates[0])) =>
        /\ success
        /\ date = dates[0]

(* Year 7, printed as 0007, has made the round trip. *)
C8_Witness ==
    /\ scenario = "RoundTrip" /\ pc = "done" /\ success
    /\ dates[0].year = 7 /\ dates[0].second = 59
    /\ Len(isoString) = 21
    /\ date = dates[0]

(* C9 as stated: when the parser returns false the caller's DateTime is    *)
(* exactly as it was before the call.                                      *)
C9_UntouchedOnFailure ==
    (ParseDone /\ ~success) => date = old

(* C9 as amended: when the parser returns false, a field whose digits were *)
(* not reached is as it was before the call, and a field whose digits     *)
(* were read holds the number written in the line, unless OffsetDateTime   *)
(* was called.                                                             *)
WrittenField(line, field) ==
    CASE field = "year" -> YearOf(line)
      [] field = "month" -> TwoDigits(line, 5)
      [] field = "day" -> TwoDigits(line, 8)
      [] field = "hour" -> TwoDigits(line, 11)
      [] field = "minute" -> TwoDigits(line, 14)
      [] field = "second" -> TwoDigits(line, 17)

FieldKept(line, read, field) ==
    /\ ~read => date[field] = old[field]
    /\ (read /\ ~tzCall.called) => date[field] = WrittenField(line, field)

C9_FailureKeepsUnreadFields ==
    (ParseDone /\ ~success) =>
        /\ FieldKept(isoString, YearRead(isoString), "year")
        /\ FieldKept(isoString, MonthRead(isoString), "month")
        /\ FieldKept(isoString, DayRead(isoString), "day")
        /\ FieldKept(isoString, HourRead(isoString), "hour")
        /\ FieldKept(isoString, MinuteRead(isoString), "minute")
        /\ FieldKept(isoString, SecondRead(isoString), "second")

(* 2085-09-28 was rejected: year, month and day were overwritten, the time *)
(* fields still hold the stale values.                                     *)
C9_Witness ==
    /\ ParseDone /\ ~success /\ old = StaleDate
    /\ Len(isoString) = 10
    /\ date = MkDateTime(2085, 9, 28, StaleDate.hour, StaleDate.minute, StaleDate.second)

(* C10 as stated: when SortDateTimes returns false, outKeys is as it was   *)
(* before the call.                                                        *)
C10_OutKeysUntouched ==
    (scenario = "Sort" /\ pc = "sorted" /\ ~success) => sortedKeys = old.sortedKeys

(* The fields of the passes that can fail, in pass order, with the         *)
(* largest digit each pass accepts.                                        *)
FailFields == <<"second", "minute", "hour", "day", "month">>
FailLimits == <<59, 59, 23, 31, 12>>

PassFails(p) == \E i \in DOMAIN dates : dates[i][FailFields[p]] > FailLimits[p]
FailingPasses == {p \in 1..Len(FailFields) : PassFails(p)}
FirstFailingPass == CHOOSE p \in FailingPasses : \A q \in FailingPasses : p <= q

(* The key by which the passes before pass p, all stable, have ordered     *)
(* element i: the fields of passes p-1, ..., 1, then the index.            *)
PartialKey(i, p) == [k \in 1..p |-> IF k = p THEN i ELSE dates[i][FailFields[p - k]]]

(* C10 as amended: SortDateTimes returns false exactly when some pass      *)
(* fails; outKeys is then as it was before the call if the failing pass is *)
(* the first one, and otherwise holds the result of the passes before the  *)
(* failing one: a permutation of [0, count) stably sorted by their fields. *)
C10_FailedSortKeepsLastPass ==
    (scenario = "Sort" /\ pc = "sorted") =>
        /\ success <=> FailingPasses = {}
        /\ (~success /\ FirstFailingPass = 1) => sortedKeys = old.sortedKeys
        /\ (~success /\ FirstFailingPass > 1) =>
              /\ IsPermutation(sortedKeys, Count(dates))
              /\ \A i \in 1..(Count(dates) - 1) :
                    LexLess(PartialKey(sortedKeys[i - 1], FirstFailingPass),
                            PartialKey(sortedKeys[i], FirstFailingPass))

(* The hour pass failed after the second and minute passes had reordered   *)
(* the keys in the caller's buffer.                                        *)
C10_Witness ==
    /\ scenario = "Sort" /\ pc = "sorted" /\ ~success
    /\ Count(dates) = 3 /\ FirstFailingPass = 3
    /\ sortedKeys[0] = 2 /\ sortedKeys[1] = 1 /\ sortedKeys[2] = 0

(* C11: CountSort returns false exactly when values or valueSelector is    *)
(* absent or some key's digit exceeds maxValue, and then outKeys is as it  *)
(* was before the call; in every other case it returns true.               *)
C11_CountSortFailsClean ==
    (scenario = "CountSort" /\ pc = "done") =>
        /\ success <=> DigitsInRange
        /\ ~success => sortedKeys = old

(* Three keys, only the last one with a digit above maxValue: the call     *)
(* failed and the output buffer still holds its zeros.                     *)
C11_Witness ==
    /\ scenario = "CountSort" /\ pc = "done" /\ ~success
    /\ values # NULL /\ selector # NULL
    /\ Count(keys) = 3 /\ keys[0] = 1 /\ keys[1] = 2 /\ keys[2] = 0
    /\ Deref(values)[1] <= maxValue /\ Deref(values)[2] <= maxValue
    /\ Deref(values)[0] > maxValue
    /\ sortedKeys = Array(3, 0)

(* C12 as stated: when the sort inside DistinctDateTimes fails, the call   *)
(* returns false and neither outNewCount nor outKeys is written.           *)
C12_NothingWritten ==
    (scenario = "Sort" /\ pc = "distinct" /\ FailingPasses # {}) =>
        /\ ~success
        /\ numDistinctKeys = old.numDistinctKeys
        /\ distinctKeys = old.distinctKeys

(* C12 as amended: DistinctDateTimes returns false exactly when a pass of  *)
(* its sort fails; outKeys is then as it was before the call and           *)
(* outNewCount has been set to 0.                                          *)
C12_FailureStoresZeroCount ==
    (scenario = "Sort" /\ pc = "distinct") =>
        /\ success <=> FailingPasses = {}
        /\ ~success => /\ distinctKeys = old.distinctKeys
                       /\ numDistinctKeys = 0

(* Three DateTimes, the last with month 13: the call failed after four     *)
(* passes and replaced the caller's stale count by 0.                      *)
C12_Witness ==
    /\ scenario = "Sort" /\ pc = "distinct" /\ ~success
    /\ Count(dates) = 3 /\ dates[2].month = 13 /\ FirstFailingPass = 5
    /\ dates[0].second = 59 /\ dates[1].second = 0
    /\ old.numDistinctKeys # 0 /\ numDistinctKeys = 0
    /\ distinctKeys = Array(3, 0)

(* C13: for a well-formed line with valid fields and an offset, the carry  *)
(* from the hour into the day is -1, 0 or 1 and equals                     *)
(* floor((hh*60 + mm +/- (HH*60 + MM)) / 1440), and the day is the written *)
(* day moved by that carry in the cycle 1..31; 2085-09-28T00:00:29-23:59   *)
(* parses to 2085-09-27T00:01:29.                                          *)
SignedOffsetMinutes(line) ==
    IF IsCharAt(line, 19, "-") THEN -OffsetMinutes(line) ELSE OffsetMinutes(line)

C13Example == TimeText(MkDateTime(2085, 9, 28, 0, 0, 29)) \o TzText("-", 23, 59)

C13_DayCarryAtMostOne ==
    (ParseDone /\ WellFormedWithOffset(isoString)) =>
        /\ tzCall.called
        /\ tzCall.dayCarry \in {-1, 0, 1}
        /\ tzCall.dayCarry
              = (MinuteOfDay(isoString) + SignedOffsetMinutes(isoString)) \div 1440
        /\ date.day = ((TwoDigits(isoString, 8) - 1 + tzCall.dayCarry) % 31) + 1
        /\ isoString = C13Example => date = MkDateTime(2085, 9, 27, 0, 1, 29)

(* C14: SortDateTimes is stable: for valid DateTimes, equal DateTimes      *)
(* appear in outKeys in ascending index order, and a collection already in *)
(* ascending order gets the identity permutation; DistinctDateTimes        *)
(* returns for each distinct value the smallest index holding it.          *)
AlreadyAscending(ds) ==
    \A i \in 1..(Count(ds) - 1) : ~LexLess(LexKey(ds[i]), LexKey(ds[i - 1]))

SmallestIndexOf(dt) ==
    CHOOSE i \in DOMAIN dates :
        dates[i] = dt /\ \A j \in DOMAIN dates : dates[j] = dt => i <= j

C14_SortStable ==
    /\ (scenario = "Sort" /\ pc = "sorted" /\ AllValid(dates)) =>
          /\ \A i, j \in DOMAIN sortedKeys :
                (i < j /\ dates[sortedKeys[i]] = dates[sortedKeys[j]])
                    => sortedKeys[i] < sortedKeys[j]
          /\ AlreadyAscending(dates) => \A i \in DOMAIN sortedKeys : sortedKeys[i] = i
    /\ (scenario = "Sort" /\ pc = "distinct" /\ AllValid(dates)) =>
          \A i \in 0..(numDistinctKeys - 1) :
              distinctKeys[i] = SmallestIndexOf(dates[distinctKeys[i]])

(* {A, B, A} with B before A in the order has been sorted: B came first    *)
(* and the two A kept their input order.                                   *)
C14_Witness ==
    /\ scenario = "Sort" /\ pc = "sorted" /\ success
    /\ Count(dates) = 3 /\ AllValid(dates)
    /\ dates[0] = dates[2] /\ LexLess(LexKey(dates[1]), LexKey(dates[0]))
    /\ sortedKeys[0] = 1 /\ sortedKeys[1] = 0 /\ sortedKeys[2] = 2

(* C15: a well-formed line with valid fields and an offset always parses   *)
(* successfully to valid fields: the day moves by the carry of the hour    *)
(* and wraps in 1..31 whatever the month, its carry moves the month, which *)
(* wraps in 1..12, and the month's carry moves the year, which wraps       *)
(* modulo 10000, the carry out of the year being dropped;                  *)
(* 9999-12-31T23:30:00+01:00 parses to 0000-01-01T00:30:00.                *)
DayIndex(line) == TwoDigits(line, 8) - 1 + tzCall.dayCarry
MonthIndex(line) == TwoDigits(line, 5) - 1 + (DayIndex(line) \div 31)
YearIndex(line) == YearOf(line) + (MonthIndex(line) \div 12)

C15Example == TimeText(MkDateTime(9999, 12, 31, 23, 30, 0)) \o TzText("+", 1, 0)

C15_NormalizationNeverFails ==
    (ParseDone /\ WellFormedWithOffset(isoString)) =>
        /\ success
        /\ FieldsInRange(date)
        /\ date.day = (DayIndex(isoString) % 31) + 1
        /\ date.month = (MonthIndex(isoString) % 12) + 1
        /\ date.year = YearIndex(isoString) % 10000
        /\ isoString = C15Example => date = MkDateTime(0, 1, 1, 0, 30, 0)

(* 0000-01-01T00:00:00-00:01 has been parsed: the borrow ran through every *)
(* field, below year 0000, and the call still succeeded.                   *)
C15_Witness ==
    /\ ParseDone /\ success
    /\ isoString = TimeText(MkDateTime(0, 1, 1, 0, 0, 0)) \o TzText("-", 0, 1)
    /\ YearIndex(isoString) = -1
    /\ date = MkDateTime(9999, 12, 31, 23, 59, 0)

====
